---- MODULE Spec2Model ----
(***************************************************************************)
(* State-machine model of src/server.js: an Express application over three *)
(* Mongoose collections (User, Series, Product) with JWT authentication.   *)
(* Every request handler is split at its awaits, so that handlers of       *)
(* concurrent requests interleave exactly where the Node event loop lets   *)
(* them interleave.                                                        *)
(***************************************************************************)
EXTENDS Integers, Sequences, FiniteSets, TLC

VARIABLES
  users,      \* the User collection
  series,     \* the Series collection
  products,   \* the Product collection
  nextId,     \* the next ObjectId the driver generates
  now,        \* the clock, in seconds
  issued,     \* the tokens clients hold (the bodies of successful logins)
  req,        \* the requests in flight, one per connection slot
  started,    \* how many requests were received
  registered  \* per username, how many registrations were answered 201

vars == <<users, series, products, nextId, now, issued, req, started, registered>>

(***************************************************************************)
(* Bounds of the model.                                                    *)
(***************************************************************************)
MaxAuthRequests == 3     \* requests the auth routes receive in one behaviour
MaxCatalogRequests == 4  \* requests the catalog routes receive in one behaviour
MaxProducts == 2         \* products created in one behaviour
MaxTicks == 2            \* clock advances in one behaviour
TickSeconds == 1800      \* seconds per clock advance

(***************************************************************************)
(* Program constants.                                                      *)
(***************************************************************************)
ExpiresIn == 3600   \* expiresIn: '1h', in seconds
SaltRounds == 10    \* bcrypt.hash(password, 10)

\* The connections requests arrive on: two requests are in flight at most.
Slots == {1, 2}
JWT_SECRET == "process.env.JWT_SECRET"
Absent == "<undefined>"
Usernames == {"alice", "bob"}
Passwords == {"pw1", "pw2"}
SeriesNames == {"S1", "S2"}

(***************************************************************************)
(* Identifiers.  A stored _id is a positive integer (an ObjectId, unique   *)
(* per document).  An identifier sent by a client is a string: wf says     *)
(* whether it casts to an ObjectId, n is the ObjectId it casts to.         *)
(***************************************************************************)
MalformedId == [wf |-> FALSE, n |-> 0]
ClientIds == {[wf |-> TRUE, n |-> k] : k \in 1..nextId} \cup {MalformedId}

\* A body field that is left out: findById(undefined) queries { _id: null }.
NoId == [wf |-> TRUE, n |-> 0]

\* Mongoose's cast of a path or body string to an ObjectId: fails (CastError)
\* on a string that is not an ObjectId.
CastOk(id) == id.wf

\* Series.findById(id): the matching documents (none or one).
SeriesFindById(id) == {s \in series : s._id = id.n}

\* Product.findById(id)
ProductFindById(id) == {p \in products : p._id = id.n}

\* User.findOne({ username })
UserFindOne(u) == {x \in users : x.username = u}

NullSeries == [null |-> TRUE]

\* .populate('series', 'name'): the reference replaced by {_id, name} of the
\* Series it resolves to, or by null when it resolves to none.
Populate(p) ==
  LET hit == {s \in series : s._id = p.series}
  IN  [p EXCEPT !.series =
         IF hit = {} THEN NullSeries
         ELSE LET s == CHOOSE s \in hit : TRUE
              IN  [_id |-> s._id, name |-> s.name]]

\* Product.find({ series: seriesId }): the filter value is cast like an id.
ProductFindBySeries(id) == {p \in products : p.series = id.n}

(***************************************************************************)
(* Product documents.  A field the request body does not carry is absent   *)
(* from the document, and from every JSON rendering of it.                 *)
(***************************************************************************)
BareBody ==
  [name |-> "iPhone 12", capacity |-> "128GB", color |-> "black", code |-> "A2403",
   battery |-> "90%", condition |-> "used", sellingPrice |-> 500]

ProductBodies ==
  {BareBody,
   BareBody @@ [purchasePrice |-> 400],
   BareBody @@ [purchasePrice |-> 400, source |-> "supplier"]}

\* new Product({ name, ..., source, series: series._id })
NewProduct(id, body, seriesId) == body @@ [_id |-> id, series |-> seriesId]

(***************************************************************************)
(* bcryptjs.  A hash carries its salt; compare re-hashes with that salt.   *)
(***************************************************************************)
Salts == {"salt1", "salt2"}

BcryptHash(pw, salt) == [rounds |-> SaltRounds, salt |-> salt, digest |-> <<salt, pw>>]

BcryptCompare(pw, h) == BcryptHash(pw, h.salt) = h

(***************************************************************************)
(* jsonwebtoken.  A token string is fmt "jwt" (three base64url segments)   *)
(* or "junk"; key is the key its signature was made with.                  *)
(***************************************************************************)
JwtSign(payload, secret, t) ==
  [fmt |-> "jwt", id |-> payload.id, username |-> payload.username,
   iat |-> t, exp |-> t + ExpiresIn, key |-> secret]

JunkToken == [fmt |-> "junk", id |-> 0, username |-> "", iat |-> 0, exp |-> 0, key |-> ""]

\* jwt.verify(string, secret) at time t: TRUE when it yields no error.  The
\* string is the whole header value, prefix included.
JwtVerify(h, secret, t) ==
  /\ h.prefix = ""
  /\ h.tok.fmt = "jwt"
  /\ h.tok.key = secret
  /\ t < h.tok.exp

NoHeader == [present |-> FALSE, prefix |-> "", tok |-> JunkToken]

\* The authorization headers a client can send: none, a token it holds
\* (as it is, or under the Bearer scheme), a token it holds re-signed with a
\* key of its own, or a string that is no token.
Headers ==
  {NoHeader}
  \cup {[present |-> TRUE, prefix |-> pre, tok |-> k] :
          pre \in {"", "Bearer "}, k \in issued}
  \cup {[present |-> TRUE, prefix |-> "", tok |-> [k EXCEPT !.key = "forged"]] :
          k \in issued}
  \cup {[present |-> TRUE, prefix |-> "", tok |-> JunkToken]}

\* verifyToken with the token's expiry ignored.
VerifyTokenIgnoringExpiry(h, t) ==
  IF ~h.present THEN 403
  ELSE IF ~(h.prefix = "" /\ h.tok.fmt = "jwt" /\ h.tok.key = JWT_SECRET) THEN 500
  ELSE 0

\* verifyToken: the status it answers with, 0 when it calls next().  An
\* absent header (and an empty one) is falsy.
VerifyToken(h, t) ==
  IF ~h.present THEN 403
  ELSE IF ~JwtVerify(h, JWT_SECRET, t) THEN 500
  ELSE 0

(***************************************************************************)
(* Requests.  pc is the await the handler is suspended at; "end" is a      *)
(* handler that has returned.  err is the kind of the exception the        *)
(* handler met, "" when none.                                              *)
(***************************************************************************)
NoInput == [none |-> TRUE]

Idle ==
  [op |-> "none", pc |-> "idle", in |-> NoInput, loc |-> 0,
   status |-> 0, text |-> "", data |-> {}, nresp |-> 0, err |-> ""]

\* No handler has returned without its connection being released yet.  A
\* response leaving the server touches nothing but its own connection, so
\* it is taken before any other step.
NoPending == \A q \in Slots : req[q].pc # "end"

\* A request is received on the lowest idle connection.
CanStart(r, max) ==
  /\ NoPending
  /\ started < max
  /\ req[r].pc = "idle"
  /\ \A q \in Slots : q < r => req[q].pc # "idle"

Received(op, pc, in) == [Idle EXCEPT !.op = op, !.pc = pc, !.in = in]

\* The handler suspended at pc of operation op takes its next step.
At(r, op, pc) == NoPending /\ req[r].op = op /\ req[r].pc = pc

\* res.status(s).send(text) / res.json(data), after which the handler returns.
Respond(q, s, text, data) ==
  [q EXCEPT !.pc = "end", !.loc = 0, !.status = s, !.text = text, !.data = data,
            !.nresp = q.nresp + 1]

\* catch (err) { res.status(500).send(err.message) }
Caught(q, kind) == Respond([q EXCEPT !.err = kind], 500, kind, {})

StoreUnchanged == UNCHANGED <<users, series, products, nextId, registered>>

\* The server starts on an empty database.
Init ==
  /\ users = {}
  /\ series = {}
  /\ products = {}
  /\ nextId = 1
  /\ now = 0
  /\ issued = {}
  /\ req = [r \in Slots |-> Idle]
  /\ started = 0
  /\ registered = [u \in Usernames |-> 0]

Tick ==
  /\ NoPending
  /\ now < MaxTicks * TickSeconds
  /\ now' = now + TickSeconds
  /\ UNCHANGED <<users, series, products, nextId, issued, req, started, registered>>

\* The response (if any) has left and the connection is released.
Finish(r) ==
  /\ req[r].pc = "end"
  /\ req' = [req EXCEPT ![r] = Idle]
  /\ UNCHANGED <<users, series, products, nextId, now, issued, started, registered>>

(***************************************************************************)
(* POST /api/register                                                      *)
(***************************************************************************)
StartRegister(r) ==
  /\ CanStart(r, MaxAuthRequests)
  /\ \E u \in Usernames \cup {Absent}, p \in Passwords \cup {Absent} :
       req' = [req EXCEPT ![r] =
                 Received("register", "hash", [username |-> u, password |-> p])]
  /\ started' = started + 1
  /\ UNCHANGED <<users, series, products, nextId, now, issued, registered>>

\* await bcrypt.hash(password, 10), outside the try block: bcryptjs rejects
\* a password that is not a string, and the handler's promise rejects with
\* no catch of its own.  What then happens is the router's doing: Express 4
\* drops the rejection and nothing is ever sent; Express 5 passes it to its
\* default error handler, which answers 500.  The source pins no version.
RegisterHash(r) ==
  /\ At(r, "register", "hash")
  /\ \/ /\ req[r].in.password = Absent
        /\ req' = [req EXCEPT ![r] = [@ EXCEPT !.pc = "end", !.err = "bcrypt"]]
     \/ /\ req[r].in.password = Absent
        /\ req' = [req EXCEPT ![r] = Caught(@, "bcrypt")]
     \/ /\ req[r].in.password # Absent
        /\ \E salt \in Salts :
             req' = [req EXCEPT ![r] = [@ EXCEPT !.pc = "save",
                       !.loc = BcryptHash(req[r].in.password, salt)]]
  /\ UNCHANGED <<users, series, products, nextId, now, issued, started, registered>>

\* await newUser.save(): validation (required), then the insert, which the
\* unique index on username accepts or rejects atomically.
RegisterSave(r) ==
  /\ At(r, "register", "save")
  /\ \/ /\ req' = [req EXCEPT ![r] = Caught(@, "store")]
        /\ StoreUnchanged
     \/ /\ req[r].in.username = Absent
        /\ req' = [req EXCEPT ![r] = Caught(@, "validation")]
        /\ StoreUnchanged
     \/ /\ req[r].in.username # Absent
        /\ UserFindOne(req[r].in.username) # {}
        /\ req' = [req EXCEPT ![r] = Caught(@, "duplicate")]
        /\ StoreUnchanged
     \/ /\ req[r].in.username # Absent
        /\ UserFindOne(req[r].in.username) = {}
        /\ users' = users \cup {[_id |-> nextId, username |-> req[r].in.username,
                                 password |-> req[r].loc]}
        /\ nextId' = nextId + 1
        /\ registered' = [registered EXCEPT ![req[r].in.username] = @ + 1]
        /\ req' = [req EXCEPT ![r] = Respond(@, 201, "User registered", {})]
        /\ UNCHANGED <<series, products>>
  /\ UNCHANGED <<now, issued, started>>

(***************************************************************************)
(* POST /api/login                                                         *)
(***************************************************************************)
StartLogin(r) ==
  /\ CanStart(r, MaxAuthRequests)
  /\ \E u \in Usernames, p \in Passwords \cup {Absent} :
       req' = [req EXCEPT ![r] =
                 Received("login", "findUser", [username |-> u, password |-> p])]
  /\ started' = started + 1
  /\ UNCHANGED <<users, series, products, nextId, now, issued, registered>>

\* const user = await User.findOne({ username }); if (!user) return 400
LoginFindUser(r) ==
  /\ At(r, "login", "findUser")
  /\ \/ req' = [req EXCEPT ![r] = Caught(@, "store")]
     \/ /\ UserFindOne(req[r].in.username) = {}
        /\ req' = [req EXCEPT ![r] = Respond(@, 400, "User not found", {})]
     \/ \E user \in UserFindOne(req[r].in.username) :
          req' = [req EXCEPT ![r] = [@ EXCEPT !.pc = "compare", !.loc = user]]
  /\ UNCHANGED <<users, series, products, nextId, now, issued, started, registered>>

\* The compare step with validPassword never tested.
LoginCompareUnchecked(r) ==
  /\ At(r, "login", "compare")
  /\ \/ /\ req[r].in.password = Absent
        /\ req' = [req EXCEPT ![r] = Caught(@, "bcrypt")]
        /\ UNCHANGED issued
     \/ /\ req[r].in.password # Absent
        /\ LET token == JwtSign([id |-> req[r].loc._id, username |-> req[r].loc.username],
                                JWT_SECRET, now)
           IN  /\ req' = [req EXCEPT ![r] = Respond(@, 200, "", {[token |-> token]})]
               /\ issued' = issued \cup {token}
  /\ UNCHANGED <<users, series, products, nextId, now, started, registered>>

\* await bcrypt.compare(password, user.password), then jwt.sign and res.json.
\* bcryptjs rejects a password that is not a string; here the catch answers.
LoginCompare(r) ==
  /\ At(r, "login", "compare")
  /\ \/ /\ req[r].in.password = Absent
        /\ req' = [req EXCEPT ![r] = Caught(@, "bcrypt")]
        /\ UNCHANGED issued
     \/ /\ req[r].in.password # Absent
        /\ ~BcryptCompare(req[r].in.password, req[r].loc.password)
        /\ req' = [req EXCEPT ![r] = Respond(@, 400, "Invalid password", {})]
        /\ UNCHANGED issued
     \/ /\ req[r].in.password # Absent
        /\ BcryptCompare(req[r].in.password, req[r].loc.password)
        /\ LET token == JwtSign([id |-> req[r].loc._id, username |-> req[r].loc.username],
                                JWT_SECRET, now)
           IN  /\ req' = [req EXCEPT ![r] = Respond(@, 200, "", {[token |-> token]})]
               /\ issued' = issued \cup {token}
  /\ UNCHANGED <<users, series, products, nextId, now, started, registered>>

(***************************************************************************)
(* GET /api/products/full, behind verifyToken.  The middleware runs on     *)
(* arrival and answers itself unless the token verifies; only then does    *)
(* the handler run, up to its await.                                       *)
(***************************************************************************)
StartListFull(r) ==
  /\ CanStart(r, MaxAuthRequests)
  /\ \E h \in Headers :
       LET q == Received("full", "find", [header |-> h])
           v == VerifyToken(h, now)
       IN  req' = [req EXCEPT ![r] =
                     IF v = 403 THEN Respond(q, 403, "Token is required", {})
                     ELSE IF v = 500 THEN Respond(q, 500, "Invalid Token", {})
                     ELSE q]
  /\ started' = started + 1
  /\ UNCHANGED <<users, series, products, nextId, now, issued, registered>>

\* await Product.find().populate('series', 'name'); res.json(products)
ListFullFind(r) ==
  /\ At(r, "full", "find")
  /\ \/ req' = [req EXCEPT ![r] = Caught(@, "store")]
     \/ req' = [req EXCEPT ![r] = Respond(@, 200, "", {Populate(p) : p \in products})]
  /\ UNCHANGED <<users, series, products, nextId, now, issued, started, registered>>

(***************************************************************************)
(* GET /api/products                                                       *)
(***************************************************************************)
StartListProducts(r) ==
  /\ CanStart(r, MaxCatalogRequests)
  /\ req' = [req EXCEPT ![r] = Received("listProducts", "find", NoInput)]
  /\ started' = started + 1
  /\ UNCHANGED <<users, series, products, nextId, now, issued, registered>>

\* await Product.find().populate('series', 'name'); res.json(products)
ListProductsFind(r) ==
  /\ At(r, "listProducts", "find")
  /\ \/ req' = [req EXCEPT ![r] = Caught(@, "store")]
     \/ req' = [req EXCEPT ![r] = Respond(@, 200, "", {Populate(p) : p \in products})]
  /\ UNCHANGED <<users, series, products, nextId, now, issued, started, registered>>

(***************************************************************************)
(* POST /api/series                                                        *)
(***************************************************************************)
StartCreateSeries(r) ==
  /\ CanStart(r, MaxCatalogRequests)
  /\ \E n \in SeriesNames \cup {Absent} :
       req' = [req EXCEPT ![r] = Received("createSeries", "save", [name |-> n])]
  /\ started' = started + 1
  /\ UNCHANGED <<users, series, products, nextId, now, issued, registered>>

\* The save step as an upsert by name: a Series of the same name is replaced
\* by the new document instead of being rejected.
CreateSeriesSaveReplacing(r) ==
  /\ At(r, "createSeries", "save")
  /\ \/ /\ req' = [req EXCEPT ![r] = Caught(@, "store")]
        /\ StoreUnchanged
     \/ /\ req[r].in.name = Absent
        /\ req' = [req EXCEPT ![r] = Caught(@, "validation")]
        /\ StoreUnchanged
     \/ /\ req[r].in.name # Absent
        /\ series' = {s \in series : s.name # req[r].in.name}
                       \cup {[_id |-> nextId, name |-> req[r].in.name]}
        /\ nextId' = nextId + 1
        /\ req' = [req EXCEPT ![r] = Respond(@, 201, "Series created successfully", {})]
        /\ UNCHANGED <<users, products, registered>>
  /\ UNCHANGED <<now, issued, started>>

\* await newSeries.save(): validation (required), then the insert, which the
\* unique index on name accepts or rejects atomically.
CreateSeriesSave(r) ==
  /\ At(r, "createSeries", "save")
  /\ \/ /\ req' = [req EXCEPT ![r] = Caught(@, "store")]
        /\ StoreUnchanged
     \/ /\ req[r].in.name = Absent
        /\ req' = [req EXCEPT ![r] = Caught(@, "validation")]
        /\ StoreUnchanged
     \/ /\ req[r].in.name # Absent
        /\ \E s \in series : s.name = req[r].in.name
        /\ req' = [req EXCEPT ![r] = Caught(@, "duplicate")]
        /\ StoreUnchanged
     \/ /\ req[r].in.name # Absent
        /\ \A s \in series : s.name # req[r].in.name
        /\ series' = series \cup {[_id |-> nextId, name |-> req[r].in.name]}
        /\ nextId' = nextId + 1
        /\ req' = [req EXCEPT ![r] = Respond(@, 201, "Series created successfully", {})]
        /\ UNCHANGED <<users, products, registered>>
  /\ UNCHANGED <<now, issued, started>>

(***************************************************************************)
(* GET /api/series (declared twice in the source, with the same handler)   *)
(***************************************************************************)
StartListSeries(r) ==
  /\ CanStart(r, MaxCatalogRequests)
  /\ req' = [req EXCEPT ![r] = Received("listSeries", "find", NoInput)]
  /\ started' = started + 1
  /\ UNCHANGED <<users, series, products, nextId, now, issued, registered>>

\* await Series.find(); res.json(series)
ListSeriesFind(r) ==
  /\ At(r, "listSeries", "find")
  /\ \/ req' = [req EXCEPT ![r] = Caught(@, "store")]
     \/ req' = [req EXCEPT ![r] = Respond(@, 200, "", series)]
  /\ UNCHANGED <<users, series, products, nextId, now, issued, started, registered>>

(***************************************************************************)
(* GET /api/series/:id                                                     *)
(***************************************************************************)
StartGetSeries(r) ==
  /\ CanStart(r, MaxCatalogRequests)
  /\ \E id \in ClientIds :
       req' = [req EXCEPT ![r] = Received("getSeries", "findById", [id |-> id])]
  /\ started' = started + 1
  /\ UNCHANGED <<users, series, products, nextId, now, issued, registered>>

\* await Series.findById(req.params.id): a CastError on a malformed id is
\* caught; no match is 404; else { _id, name }.
GetSeriesFind(r) ==
  /\ At(r, "getSeries", "findById")
  /\ \/ req' = [req EXCEPT ![r] = Caught(@, "store")]
     \/ /\ ~CastOk(req[r].in.id)
        /\ req' = [req EXCEPT ![r] = Caught(@, "cast")]
     \/ /\ CastOk(req[r].in.id)
        /\ SeriesFindById(req[r].in.id) = {}
        /\ req' = [req EXCEPT ![r] = Respond(@, 404, "Series not found", {})]
     \/ /\ CastOk(req[r].in.id)
        /\ \E s \in SeriesFindById(req[r].in.id) :
             req' = [req EXCEPT ![r] =
                       Respond(@, 200, "", {[_id |-> s._id, name |-> s.name]})]
  /\ UNCHANGED <<users, series, products, nextId, now, issued, started, registered>>

(***************************************************************************)
(* GET /api/products/:id                                                   *)
(***************************************************************************)
StartGetProduct(r) ==
  /\ CanStart(r, MaxCatalogRequests)
  /\ \E id \in ClientIds :
       req' = [req EXCEPT ![r] = Received("getProduct", "findById", [id |-> id])]
  /\ started' = started + 1
  /\ UNCHANGED <<users, series, products, nextId, now, issued, registered>>

\* await Product.findById(req.params.id).populate('series', 'name')
GetProductFind(r) ==
  /\ At(r, "getProduct", "findById")
  /\ \/ req' = [req EXCEPT ![r] = Caught(@, "store")]
     \/ /\ ~CastOk(req[r].in.id)
        /\ req' = [req EXCEPT ![r] = Caught(@, "cast")]
     \/ /\ CastOk(req[r].in.id)
        /\ ProductFindById(req[r].in.id) = {}
        /\ req' = [req EXCEPT ![r] = Respond(@, 404, "Product not found", {})]
     \/ /\ CastOk(req[r].in.id)
        /\ \E p \in ProductFindById(req[r].in.id) :
             req' = [req EXCEPT ![r] = Respond(@, 200, "", {Populate(p)})]
  /\ UNCHANGED <<users, series, products, nextId, now, issued, started, registered>>

(***************************************************************************)
(* POST /api/products                                                      *)
(***************************************************************************)
StartCreateProduct(r) ==
  /\ CanStart(r, MaxCatalogRequests)
  /\ Cardinality(products) + Cardinality({q \in Slots : req[q].op = "createProduct"})
       < MaxProducts
  /\ \E b \in ProductBodies, id \in ClientIds \cup {NoId} :
       req' = [req EXCEPT ![r] =
                 Received("createProduct", "findSeries", [body |-> b, seriesId |-> id])]
  /\ started' = started + 1
  /\ UNCHANGED <<users, series, products, nextId, now, issued, registered>>

\* The lookup step with the (!series) test missing: the handler goes on to
\* save the product under the identifier it was sent.
CreateProductFindSeriesUnchecked(r) ==
  /\ At(r, "createProduct", "findSeries")
  /\ \/ req' = [req EXCEPT ![r] = Caught(@, "store")]
     \/ /\ ~CastOk(req[r].in.seriesId)
        /\ req' = [req EXCEPT ![r] = Caught(@, "cast")]
     \/ /\ CastOk(req[r].in.seriesId)
        /\ req' = [req EXCEPT ![r] = [@ EXCEPT !.pc = "save", !.loc = req[r].in.seriesId.n]]
  /\ UNCHANGED <<users, series, products, nextId, now, issued, started, registered>>

\* const series = await Series.findById(seriesId); if (!series) return 400
CreateProductFindSeries(r) ==
  /\ At(r, "createProduct", "findSeries")
  /\ \/ req' = [req EXCEPT ![r] = Caught(@, "store")]
     \/ /\ ~CastOk(req[r].in.seriesId)
        /\ req' = [req EXCEPT ![r] = Caught(@, "cast")]
     \/ /\ CastOk(req[r].in.seriesId)
        /\ SeriesFindById(req[r].in.seriesId) = {}
        /\ req' = [req EXCEPT ![r] = Respond(@, 400, "Series not found", {})]
     \/ /\ CastOk(req[r].in.seriesId)
        /\ \E s \in SeriesFindById(req[r].in.seriesId) :
             req' = [req EXCEPT ![r] = [@ EXCEPT !.pc = "save", !.loc = s._id]]
  /\ UNCHANGED <<users, series, products, nextId, now, issued, started, registered>>

\* await newProduct.save(), the product linked to series._id
CreateProductSave(r) ==
  /\ At(r, "createProduct", "save")
  /\ \/ /\ req' = [req EXCEPT ![r] = Caught(@, "store")]
        /\ StoreUnchanged
     \/ /\ products' = products \cup {NewProduct(nextId, req[r].in.body, req[r].loc)}
        /\ nextId' = nextId + 1
        /\ req' = [req EXCEPT ![r] = Respond(@, 201, "Product created successfully", {})]
        /\ UNCHANGED <<users, series, registered>>
  /\ UNCHANGED <<now, issued, started>>

(***************************************************************************)
(* GET /api/products/series/:seriesId                                      *)
(***************************************************************************)
StartBySeries(r) ==
  /\ CanStart(r, MaxCatalogRequests)
  /\ \E id \in ClientIds :
       req' = [req EXCEPT ![r] = Received("bySeries", "findSeries", [seriesId |-> id])]
  /\ started' = started + 1
  /\ UNCHANGED <<users, series, products, nextId, now, issued, registered>>

\* const series = await Series.findById(seriesId); if (!series) return 404
BySeriesFindSeries(r) ==
  /\ At(r, "bySeries", "findSeries")
  /\ \/ req' = [req EXCEPT ![r] = Caught(@, "store")]
     \/ /\ ~CastOk(req[r].in.seriesId)
        /\ req' = [req EXCEPT ![r] = Caught(@, "cast")]
     \/ /\ CastOk(req[r].in.seriesId)
        /\ SeriesFindById(req[r].in.seriesId) = {}
        /\ req' = [req EXCEPT ![r] = Respond(@, 404, "Series not found", {})]
     \/ /\ CastOk(req[r].in.seriesId)
        /\ SeriesFindById(req[r].in.seriesId) # {}
        /\ req' = [req EXCEPT ![r] = [@ EXCEPT !.pc = "findProducts"]]
  /\ UNCHANGED <<users, series, products, nextId, now, issued, started, registered>>

\* await Product.find({ series: seriesId }).populate('series', 'name')
BySeriesFindProducts(r) ==
  /\ At(r, "bySeries", "findProducts")
  /\ \/ req' = [req EXCEPT ![r] = Caught(@, "store")]
     \/ req' = [req EXCEPT ![r] =
                  Respond(@, 200, "", {Populate(p) : p \in ProductFindBySeries(req[r].in.seriesId)})]
  /\ UNCHANGED <<users, series, products, nextId, now, issued, started, registered>>

(***************************************************************************)
(* The system.  Auth touches users, tokens and the clock; Catalog touches  *)
(* series and products; GET /api/products/full reads products behind the   *)
(* token check.                                                            *)
(***************************************************************************)
AuthNext ==
  \/ Tick
  \/ \E r \in Slots : Finish(r)
  \/ \E r \in Slots : StartRegister(r)
  \/ \E r \in Slots : RegisterHash(r)
  \/ \E r \in Slots : RegisterSave(r)
  \/ \E r \in Slots : StartLogin(r)
  \/ \E r \in Slots : LoginFindUser(r)
  \/ \E r \in Slots : LoginCompare(r)
  \/ \E r \in Slots : StartListFull(r)
  \/ \E r \in Slots : ListFullFind(r)

CatalogNext ==
  \/ \E r \in Slots : Finish(r)
  \/ \E r \in Slots : StartCreateSeries(r)
  \/ \E r \in Slots : CreateSeriesSave(r)
  \/ \E r \in Slots : StartListSeries(r)
  \/ \E r \in Slots : ListSeriesFind(r)
  \/ \E r \in Slots : StartGetSeries(r)
  \/ \E r \in Slots : GetSeriesFind(r)
  \/ \E r \in Slots : StartCreateProduct(r)
  \/ \E r \in Slots : CreateProductFindSeries(r)
  \/ \E r \in Slots : CreateProductSave(r)
  \/ \E r \in Slots : StartListProducts(r)
  \/ \E r \in Slots : ListProductsFind(r)
  \/ \E r \in Slots : StartGetProduct(r)
  \/ \E r \in Slots : GetProductFind(r)
  \/ \E r \in Slots : StartBySeries(r)
  \/ \E r \in Slots : BySeriesFindSeries(r)
  \/ \E r \in Slots : BySeriesFindProducts(r)

Next == AuthNext \/ CatalogNext

Spec == Init /\ [][Next]_vars

SpecCatalog == Init /\ [][CatalogNext]_vars

\* The auth routes, started on an empty database or on the catalog that
\* POST /api/series {name: "S1"} and one POST /api/products leave in it.
InitAuth ==
  /\ users = {}
  /\ \/ series = {} /\ products = {} /\ nextId = 1
     \/ /\ series = {[_id |-> 1, name |-> "S1"]}
        /\ products = {NewProduct(2, BareBody @@ [purchasePrice |-> 400, source |-> "supplier"], 1)}
        /\ nextId = 3
  /\ now = 0
  /\ issued = {}
  /\ req = [r \in Slots |-> Idle]
  /\ started = 0
  /\ registered = [u \in Usernames |-> 0]

SpecAuth == InitAuth /\ [][AuthNext]_vars

(***************************************************************************)
(* Properties.                                                             *)
(***************************************************************************)
Ended(r, op) == req[r].op = op /\ req[r].pc = "end"

\* The identifier a client sent names a stored Series / Product.
MatchesSeries(id) == id.wf /\ \E s \in series : s._id = id.n
MatchesProduct(id) == id.wf /\ \E p \in products : p._id = id.n

\* The header carries, with no prefix, a token signed with the server's
\* secret that has not expired at time t.
SignedUnexpired(h, t) ==
  /\ h.present
  /\ h.prefix = ""
  /\ h.tok.fmt = "jwt"
  /\ h.tok.key = JWT_SECRET
  /\ t < h.tok.exp

\* C1: the public listing GET /api/products carries no purchasePrice and no
\* source field for any product and returns every stored product; GET
\* /api/products/full returns the same products with their stored fields.
C1_PublicListingHidesCost ==
  \A r \in Slots :
    /\ (Ended(r, "listProducts") /\ req[r].status = 200) =>
         /\ \A d \in req[r].data :
              "purchasePrice" \notin DOMAIN d /\ "source" \notin DOMAIN d
         /\ {d._id : d \in req[r].data} = {p._id : p \in products}
    /\ (Ended(r, "full") /\ req[r].status = 200) =>
         req[r].data = {Populate(p) : p \in products}

\* C2: on arrival of GET /api/products/full, a request with no authorization
\* header is answered 403 and one whose token is not signed with the secret
\* or has expired is answered 500, both by the middleware, without the
\* handler running and with no product data; the handler runs only for a
\* valid token, and only a request whose handler ran is answered 200.
C2_FullListingNeedsValidToken ==
  [][\A r \in Slots :
       /\ (req[r].pc = "idle" /\ req'[r].op = "full") =>
            LET h == req'[r].in.header
                q == req'[r]
            IN  /\ ~h.present =>
                     q.pc = "end" /\ q.status = 403 /\ q.nresp = 1 /\ q.data = {}
                /\ (h.present /\ ~SignedUnexpired(h, now)) =>
                     q.pc = "end" /\ q.status = 500 /\ q.nresp = 1 /\ q.data = {}
                /\ SignedUnexpired(h, now) => q.pc = "find" /\ q.nresp = 0
       /\ (req'[r].op = "full" /\ req'[r].status = 200 /\ req[r].status # 200) =>
            /\ req[r].op = "full" /\ req[r].pc = "find"
            /\ req'[r].data = {Populate(p) : p \in products}
    ]_vars

\* An expired token, once issued by a login, is refused while the catalog
\* holds a product.
C2_Witness ==
  \E r \in Slots :
    /\ Ended(r, "full") /\ req[r].status = 500
    /\ req[r].in.header.prefix = ""
    /\ req[r].in.header.tok \in issued
    /\ req[r].in.header.tok.exp <= now
    /\ products # {}

\* C3: a token issued by a login and presented as 'Bearer <token>' before
\* its expiry is accepted: the request is answered 200 with the full list
\* (unless the store fails).
C3_BearerTokenAccepted ==
  \A r \in Slots :
    ( /\ Ended(r, "full")
      /\ req[r].in.header.present
      /\ req[r].in.header.prefix = "Bearer "
      /\ req[r].in.header.tok \in issued
      /\ now < req[r].in.header.tok.exp
      /\ req[r].err # "store" )
    => /\ req[r].status = 200
       /\ req[r].data = {Populate(p) : p \in products}

\* C4: the store holds at most one user per username, and of the register
\* requests for one username exactly one is answered 201 and every other
\* one is answered 500 for the conflict (unless the store fails).
C4_ExactlyOneRegistration ==
  /\ \A u \in Usernames : Cardinality(UserFindOne(u)) <= 1
  /\ \A r \in Slots :
       ( /\ Ended(r, "register")
         /\ req[r].in.username \in Usernames
         /\ req[r].err # "store" )
       => /\ req[r].nresp = 1
          /\ req[r].status \in {201, 500}
          /\ req[r].status = 500 => req[r].err = "duplicate"
          /\ registered[req[r].in.username] = 1

\* C5: a login that the store serves is answered 200 exactly when the
\* username is registered and the given password verifies against the
\* stored hash; the token then carries that user's _id and username and
\* expires ExpiresIn seconds after it was issued; an unknown username and a
\* wrong password are both answered 400, with no token.
C5_LoginIffCredentials ==
  \A r \in Slots :
    (Ended(r, "login") /\ req[r].err # "store") =>
      LET u == req[r].in.username
          pw == req[r].in.password
          known == UserFindOne(u)
          verifies == pw # Absent /\ \E x \in known : BcryptCompare(pw, x.password)
      IN  /\ req[r].nresp = 1
          /\ req[r].status = 200 <=> (known # {} /\ verifies)
          /\ req[r].status = 200 =>
               \E x \in known :
                 req[r].data = {[token |-> [fmt |-> "jwt", id |-> x._id, username |-> u,
                                            iat |-> now, exp |-> now + ExpiresIn,
                                            key |-> JWT_SECRET]]}
          /\ (known = {} \/ (pw # Absent /\ ~verifies)) =>
               req[r].status = 400 /\ req[r].data = {}
          /\ req[r].status # 200 => req[r].data = {}

\* A login is answered 200 while two users are registered.
C5_Witness ==
  \E r \in Slots :
    Ended(r, "login") /\ req[r].status = 200 /\ Cardinality(users) = 2

\* C6: the lookup step of POST /api/products, taken with a seriesId that no
\* Series matches, ends the request with a failure status and changes no
\* collection.
C6_UnknownSeriesPersistsNothing ==
  [][\A r \in Slots :
       ( /\ req[r].op = "createProduct" /\ req[r].pc = "findSeries"
         /\ req'[r] # req[r]
         /\ ~MatchesSeries(req[r].in.seriesId) )
       => /\ req'[r].pc = "end"
          /\ req'[r].status \in {400, 500}
          /\ req'[r].nresp = 1
          /\ products' = products
          /\ series' = series
          /\ users' = users
    ]_vars

\* A product creation is refused with 400 although the catalog holds a
\* series and a product.
C6_Witness ==
  \E r \in Slots :
    /\ Ended(r, "createProduct") /\ req[r].status = 400
    /\ series # {} /\ products # {}

\* C7: GET /api/products/series/:seriesId, when the store serves it, answers
\* 404 for a seriesId that matches no Series, and otherwise 200 with exactly
\* the products of that Series, each with series.name the Series' name.
C7_BySeriesListing ==
  \A r \in Slots :
    (Ended(r, "bySeries") /\ req[r].err # "store") =>
      LET id == req[r].in.seriesId
      IN  IF ~MatchesSeries(id)
          THEN req[r].status = 404
          ELSE /\ req[r].status = 200
               /\ {d._id : d \in req[r].data} = {p._id : p \in {x \in products : x.series = id.n}}
               /\ \A d \in req[r].data :
                    \E s \in series : s._id = id.n /\ d.series.name = s.name

\* C8: every stored Product's series reference resolves to a stored Series.
C8_NoDanglingSeries ==
  \A p \in products : \E s \in series : s._id = p.series

\* Two products are stored that reference two different series.
C8_Witness ==
  \E p1, p2 \in products : p1.series # p2.series

\* C9: GET /api/series/:id and GET /api/products/:id, when the store serves
\* them, answer 404 for every identifier that matches no record, well-formed
\* or not, and otherwise 200 with the record.
C9_LookupMissIsNotFound ==
  \A r \in Slots :
    /\ (Ended(r, "getSeries") /\ req[r].err # "store") =>
         IF ~MatchesSeries(req[r].in.id)
         THEN req[r].status = 404
         ELSE req[r].status = 200 /\ req[r].data = SeriesFindById(req[r].in.id)
    /\ (Ended(r, "getProduct") /\ req[r].err # "store") =>
         IF ~MatchesProduct(req[r].in.id)
         THEN req[r].status = 404
         ELSE /\ req[r].status = 200
              /\ req[r].data = {Populate(p) : p \in ProductFindById(req[r].in.id)}

\* C10: a handler that has returned has sent exactly one response, and a
\* fault it met was answered 500.
C10_EveryRequestAnsweredOnce ==
  \A r \in Slots :
    req[r].pc = "end" =>
      /\ req[r].nresp = 1
      /\ req[r].err # "" => req[r].status = 500
====
